---- MODULE Spec2Model ----
(***************************************************************************)
(* A model of the bridging layer of futures-rs:                            *)
(*   - IntoAsyncRead (futures-util/src/try_stream/into_async_read.rs),     *)
(*     the adapter from a stream of byte chunks to AsyncRead/AsyncBufRead; *)
(*   - the test decorators InterleavePending and Limited that              *)
(*     futures-test/src/io/read/mod.rs constructs and documents.           *)
(***************************************************************************)
EXTENDS Integers, Sequences, FiniteSets, TLC

VARIABLES
    upstream,          \* every item the upstream yields, from its start to its end
    stream,            \* IntoAsyncRead.stream: the items the upstream has yet to yield
    state,             \* IntoAsyncRead.state: the ReadState
    debug_assertions,  \* whether the build compiles debug_assert! in
    panicked,          \* a debug_assert! has fired
    ret,               \* the last call: operation, argument, result, upstream polls
    produced,          \* the bytes of the chunks the upstream has yielded so far
    taken,             \* the bytes copied out by poll_read or passed over by consume
    exposed,           \* the length of the view fill_buf currently exposes
    misused,           \* some consume asked for more than was exposed
    bufRead,           \* poll_fill_buf or consume has been called
    errs,              \* how many calls have returned an error
    pended,            \* InterleavePending.pended
    calls,             \* poll_read/poll_fill_buf calls made on the InterleavePending
    delegated,         \* the calls the InterleavePending passed to the wrapped reader
    limit,             \* Limited.limit (0: no Limited in front of the reader)
    decorators,        \* which of the test decorators stand in front of the reader
    bridge,            \* the executor bridge in use: "Executor01As03" or "Compat"
    targetOpen,        \* the wrapped executor or spawner has not been shut down
    tasks,             \* the futures the wrapped target has accepted, in order
    sub,               \* the last submission made through the bridge and its result
    submits,           \* how many submissions have been made through the bridge
    observed,          \* the values the wrapped target has seen its futures resolve to
    lsn,               \* the TCP listener: its future, its socket, its read readiness
    con,               \* the TCP connect: its future, its socket, its write readiness
    registered         \* the sockets registered with the event loop

adapterVars == <<upstream, stream, state, debug_assertions, panicked, ret, produced,
                 taken, exposed, misused, bufRead, errs>>
wrapperVars == <<pended, calls, delegated, limit, decorators>>
execVars == <<bridge, targetOpen, tasks, sub, submits, observed>>
tcpVars == <<lsn, con, registered>>
vars == <<upstream, stream, state, debug_assertions, panicked, ret, produced, taken,
          exposed, misused, bufRead, errs, pended, calls, delegated, limit,
          decorators, bridge, targetOpen, tasks, sub, submits, observed,
          lsn, con, registered>>

---------------------------------------------------------------------------
\* Bounds of the model.

\* The longest chunk the upstream yields.
MaxChunkLen == 2
\* The most items (chunks and errors) the upstream yields before it ends.
MaxItems == 3
\* The largest caller buffer handed to poll_read.
MaxBuf == 3
\* The most connections that arrive at the listener.
MaxConns == 2
\* The most accept calls the OS fails with an error other than would-block.
MaxAcceptErrs == 1
\* The most firings of one readiness stream whose condition does not hold.
MaxSpurious == 1
\* The most submissions made through an executor bridge.
MaxSubmits == 4
\* The most poll_read/poll_fill_buf calls made on an InterleavePending.
MaxCalls == 6
\* The largest cap given to Limited.
MaxLimit == 2

Min(a, b) == IF a <= b THEN a ELSE b

---------------------------------------------------------------------------
\* The upstream TryStream<Ok: AsRef<[u8]>, Error = io::Error>.

\* One item of the upstream: Some(Ok(chunk)) or Some(Err(err)).
OkItem(bytes) == [ok |-> TRUE, bytes |-> bytes]
ErrItem == [ok |-> FALSE, bytes |-> <<>>]

\* The shapes of an upstream: per item the length of its chunk, or -1 for an error.
Shapes == UNION {[1..n -> -1..MaxChunkLen] : n \in 0..MaxItems}

\* The upstream of a shape. Every byte it yields is distinct (the k-th byte is
\* first + k - 1), so that a skipped, repeated or reordered byte shows.
RECURSIVE MkStream(_, _)
MkStream(shape, first) ==
    IF shape = <<>> THEN <<>>
    ELSE IF Head(shape) < 0
         THEN <<ErrItem>> \o MkStream(Tail(shape), first)
         ELSE <<OkItem([i \in 1..Head(shape) |-> first + i - 1])>>
                  \o MkStream(Tail(shape), first + Head(shape))

---------------------------------------------------------------------------
\* enum ReadState

Ready(chunk, chunk_start) ==
    [tag |-> "Ready", chunk |-> chunk, chunk_start |-> chunk_start]
PendingChunk == [tag |-> "PendingChunk", chunk |-> <<>>, chunk_start |-> 0]
Eof == [tag |-> "Eof", chunk |-> <<>>, chunk_start |-> 0]

\* &chunk[chunk_start..] of a Ready state.
Rest(st) == SubSeq(st.chunk, st.chunk_start + 1, Len(st.chunk))

\* What one call leaves behind: the new state and upstream, the Poll it returns
\* (kind, data), how often it polled the upstream and the chunk it got from it.
Outcome(st, strm, kind, data, polled, got) ==
    [state |-> st, stream |-> strm, kind |-> kind, data |-> data,
     polled |-> polled, got |-> got]

---------------------------------------------------------------------------
\* impl AsyncRead for IntoAsyncRead: poll_read

\* AfterCopy without `*chunk_start += len`.
AfterCopy_NoAdvance(st, len) ==
    IF Len(st.chunk) = st.chunk_start + len
    THEN PendingChunk
    ELSE Ready(st.chunk, st.chunk_start)

\* The state a copy of len bytes leaves a Ready state in.
AfterCopy(st, len) ==
    IF Len(st.chunk) = st.chunk_start + len
    THEN PendingChunk
    ELSE Ready(st.chunk, st.chunk_start + len)

\* ReadReady with the copy taken from the start of the chunk, &chunk[..len],
\* instead of from chunk_start.
ReadReady_FromChunkStart(st, strm, b, polled, got) ==
    LET len == Min(b, Len(st.chunk) - st.chunk_start)
    IN Outcome(AfterCopy(st, len), strm, "Ok", SubSeq(st.chunk, 1, len), polled, got)

\* The ReadState::Ready arm, for a caller buffer of b bytes.
ReadReady(st, strm, b, polled, got) ==
    LET len == Min(b, Len(st.chunk) - st.chunk_start)
    IN Outcome(AfterCopy(st, len), strm, "Ok",
               SubSeq(st.chunk, st.chunk_start + 1, st.chunk_start + len),
               polled, got)

\* ReadStreamErr without the latch: the state is left PendingChunk.
ReadStreamErr_NoLatch(strm) == Outcome(PendingChunk, Tail(strm), "Err", <<>>, 1, <<>>)

\* The Some(Err(err)) arm of poll_read.
ReadStreamErr(strm) == Outcome(Eof, Tail(strm), "Err", <<>>, 1, <<>>)

\* The None arm of poll_read.
ReadStreamEnd(strm) == Outcome(Eof, strm, "Ok", <<>>, 1, <<>>)

\* The ReadState::PendingChunk arm. ready: try_poll_next returns Poll::Ready.
ReadPendingChunk(st, strm, ready, b) ==
    IF ~ready THEN Outcome(st, strm, "Pending", <<>>, 1, <<>>)
    ELSE IF strm = <<>> THEN ReadStreamEnd(strm)
    ELSE IF Head(strm).ok
         THEN ReadReady(Ready(Head(strm).bytes, 0), Tail(strm), b, 1, Head(strm).bytes)
         ELSE ReadStreamErr(strm)

\* ReadEof polling the upstream again, as the PendingChunk arm does.
ReadEof_Repoll(st, strm, ready, b) == ReadPendingChunk(PendingChunk, strm, ready, b)

\* The ReadState::Eof arm.
ReadEof(st, strm, ready, b) == Outcome(Eof, strm, "Ok", <<>>, 0, <<>>)

poll_read(st, strm, ready, b) ==
    CASE st.tag = "Ready" -> ReadReady(st, strm, b, 0, <<>>)
      [] st.tag = "PendingChunk" -> ReadPendingChunk(st, strm, ready, b)
      [] st.tag = "Eof" -> ReadEof(st, strm, ready, b)

---------------------------------------------------------------------------
\* impl AsyncBufRead for IntoAsyncRead: poll_fill_buf, consume

\* The second half of poll_fill_buf: the view of a Ready state, or the empty
\* view of Eof.
FillView(st, strm, polled, got) ==
    IF st.tag = "Ready"
    THEN Outcome(st, strm, "Ok", Rest(st), polled, got)
    ELSE Outcome(st, strm, "Ok", <<>>, polled, got)

\* The Some(Err(err)) arm of poll_fill_buf.
FillStreamErr(strm) == Outcome(Eof, Tail(strm), "Err", <<>>, 1, <<>>)

\* The None arm of poll_fill_buf.
FillStreamEnd(strm) == Outcome(Eof, strm, "Ok", <<>>, 1, <<>>)

\* The `if let ReadState::PendingChunk` block of poll_fill_buf.
FillPendingChunk(st, strm, ready) ==
    IF ~ready THEN Outcome(st, strm, "Pending", <<>>, 1, <<>>)
    ELSE IF strm = <<>> THEN FillStreamEnd(strm)
    ELSE IF Head(strm).ok
         THEN FillView(Ready(Head(strm).bytes, 0), Tail(strm), 1, Head(strm).bytes)
         ELSE FillStreamErr(strm)

poll_fill_buf(st, strm, ready) ==
    IF st.tag = "PendingChunk"
    THEN FillPendingChunk(st, strm, ready)
    ELSE FillView(st, strm, 0, <<>>)

\* AfterConsume with > for >=: a chunk consumed to its end is kept.
AfterConsume_Gt(st, amount) ==
    IF st.chunk_start + amount > Len(st.chunk)
    THEN PendingChunk
    ELSE Ready(st.chunk, st.chunk_start + amount)

\* The state consume leaves a Ready state in when no assertion fires.
AfterConsume(st, amount) ==
    IF st.chunk_start + amount >= Len(st.chunk)
    THEN PendingChunk
    ELSE Ready(st.chunk, st.chunk_start + amount)

\* consume(amount). dbg: debug_assert! is compiled in. The result is "Panic"
\* when an assertion fires; chunk_start has then already been advanced.
consume(st, strm, dbg, amount) ==
    IF st.tag = "Ready"
    THEN IF dbg /\ ~(st.chunk_start + amount <= Len(st.chunk))
         THEN Outcome(Ready(st.chunk, st.chunk_start + amount), strm,
                      "Panic", <<>>, 0, <<>>)
         ELSE Outcome(AfterConsume(st, amount), strm, "Unit", <<>>, 0, <<>>)
    ELSE IF dbg
         THEN Outcome(st, strm, "Panic", <<>>, 0, <<>>)
         ELSE Outcome(st, strm, "Unit", <<>>, 0, <<>>)

\* The bytes consume(amount) passes over: those of the held chunk's rest.
Passed(st, amount) ==
    IF st.tag = "Ready"
    THEN SubSeq(st.chunk, st.chunk_start + 1,
                Min(st.chunk_start + amount, Len(st.chunk)))
    ELSE <<>>

---------------------------------------------------------------------------
\* The calls a task makes on the adapter.

Call(op, arg, o) ==
    [op |-> op, arg |-> arg, kind |-> o.kind, data |-> o.data, polled |-> o.polled]

\* The effect of a call with outcome o on the adapter and on the upstream.
Commit(op, arg, o) ==
    /\ state' = o.state
    /\ stream' = o.stream
    /\ ret' = Call(op, arg, o)
    /\ produced' = produced \o o.got
    /\ errs' = errs + (IF o.kind = "Err" THEN 1 ELSE 0)
    /\ panicked' = (o.kind = "Panic")
    /\ UNCHANGED <<upstream, debug_assertions>>
    /\ UNCHANGED <<execVars, tcpVars>>

AdapterRead(b, o) ==
    /\ Commit("read", b, o)
    /\ taken' = taken \o o.data
    /\ exposed' = 0
    /\ UNCHANGED <<misused, bufRead>>

AdapterFillBuf(o) ==
    /\ Commit("fill_buf", 0, o)
    /\ exposed' = Len(o.data)
    /\ bufRead' = TRUE
    /\ UNCHANGED <<taken, misused>>

AdapterConsume(n, o) ==
    /\ Commit("consume", n, o)
    /\ taken' = taken \o Passed(state, n)
    /\ exposed' = IF n <= exposed THEN exposed - n ELSE 0
    /\ misused' = (misused \/ n > exposed)
    /\ bufRead' = TRUE

Read(b) ==
    /\ ~panicked
    /\ \E ready \in BOOLEAN : AdapterRead(b, poll_read(state, stream, ready, b))
    /\ UNCHANGED wrapperVars

FillBuf ==
    /\ ~panicked
    /\ \E ready \in BOOLEAN : AdapterFillBuf(poll_fill_buf(state, stream, ready))
    /\ UNCHANGED wrapperVars

Consume(n) ==
    /\ ~panicked
    /\ AdapterConsume(n, consume(state, stream, debug_assertions, n))
    /\ UNCHANGED wrapperVars

\* No executor bridge in use.
NoSubmission == [kind |-> "none", answer |-> "none", delegated |-> 0]

ExecutorIdle ==
    /\ bridge = "none"
    /\ targetOpen = TRUE
    /\ tasks = <<>>
    /\ sub = NoSubmission
    /\ submits = 0
    /\ observed = {}

\* No tcp_listen call made: no listener future, no socket.
NoListener ==
    [state |-> "none", res |-> "none", err |-> "none", accepting |-> FALSE,
     backlog |-> 0, arrived |-> 0, failures |-> 0,
     fired |-> FALSE, armed |-> FALSE, spurious |-> 0, edge |-> FALSE,
     ret |-> "none", answer |-> "none",
     accepts |-> 0, consumed |-> 0, yielded |-> 0, surfaced |-> 0, errAt |-> -1]

\* No tcp_connect call made: no connect future, no socket.
NoConnect ==
    [state |-> "none", port |-> "none", os |-> "none", err |-> "none",
     fired |-> FALSE, armed |-> FALSE, spurious |-> 0,
     ret |-> "none", answer |-> "none", queries |-> 0, consumed |-> 0]

TcpIdle ==
    /\ lsn = NoListener
    /\ con = NoConnect
    /\ registered = {}

\* IntoAsyncRead::new(stream), over every upstream of the bounds, in either build.
InitAdapter ==
    /\ \E shape \in Shapes : upstream = MkStream(shape, 1)
    /\ stream = upstream
    /\ state = PendingChunk
    /\ debug_assertions \in BOOLEAN
    /\ panicked = FALSE
    /\ ret = [op |-> "none", arg |-> 0, kind |-> "Unit", data |-> <<>>, polled |-> 0]
    /\ produced = <<>>
    /\ taken = <<>>
    /\ exposed = 0
    /\ misused = FALSE
    /\ bufRead = FALSE
    /\ errs = 0
    /\ ExecutorIdle
    /\ TcpIdle

Init ==
    /\ InitAdapter
    /\ pended = FALSE
    /\ calls = 0
    /\ delegated = 0
    /\ limit = 0
    /\ decorators = {}

Next ==
    \/ \E b \in 0..MaxBuf : Read(b)
    \/ FillBuf
    \/ \E n \in 0..(MaxChunkLen + 1) : Consume(n)

Spec == Init /\ [][Next]_vars

\* The adapter in a build with debug assertions, where consume's debug_assert!
\* lines are compiled in.
InitDebug == Init /\ debug_assertions

SpecDebug == InitDebug /\ [][Next]_vars

---------------------------------------------------------------------------
\* InterleavePending<R>, as constructed by AsyncReadTestExt::interleave_pending
\* over the adapter. Its poll_read and poll_fill_buf alternate, call by call,
\* Poll::Pending without touching the wrapped reader and one delegated call.

\* InterleavePending::new: the first call is answered Pending.
InterleaveNew == FALSE

\* InterleaveDelegates inverted: the first call is delegated.
InterleaveDelegates_ReadyFirst(p) == ~p

\* Whether a call made with the toggle at p is delegated to the wrapped reader.
InterleaveDelegates(p) == p

\* The toggle after a poll_read or poll_fill_buf call made with it at p.
InterleaveToggle(p) == ~p

\* InterleaveAfterConsume flipping the toggle as the polls do.
InterleaveAfterConsume_Toggles(p) == ~p

\* The toggle after a consume call made with it at p.
InterleaveAfterConsume(p) == p

\* The call answered Pending by the wrapper itself.
InterleaveStall(op, arg) ==
    /\ ret' = [op |-> op, arg |-> arg, kind |-> "Pending", data |-> <<>>, polled |-> 0]
    /\ UNCHANGED <<upstream, stream, state, debug_assertions, panicked, produced,
                   taken, exposed, misused, bufRead, errs, delegated>>
    /\ UNCHANGED <<execVars, tcpVars>>

IPRead(b) ==
    /\ ~panicked
    /\ calls < MaxCalls
    /\ calls' = calls + 1
    /\ pended' = InterleaveToggle(pended)
    /\ IF InterleaveDelegates(pended)
       THEN /\ \E ready \in BOOLEAN : AdapterRead(b, poll_read(state, stream, ready, b))
            /\ delegated' = delegated + 1
       ELSE InterleaveStall("read", b)
    /\ UNCHANGED <<limit, decorators>>

IPFillBuf ==
    /\ ~panicked
    /\ calls < MaxCalls
    /\ calls' = calls + 1
    /\ pended' = InterleaveToggle(pended)
    /\ IF InterleaveDelegates(pended)
       THEN /\ \E ready \in BOOLEAN : AdapterFillBuf(poll_fill_buf(state, stream, ready))
            /\ delegated' = delegated + 1
       ELSE InterleaveStall("fill_buf", 0)
    /\ UNCHANGED <<limit, decorators>>

IPConsume(n) ==
    /\ ~panicked
    /\ AdapterConsume(n, consume(state, stream, debug_assertions, n))
    /\ pended' = InterleaveAfterConsume(pended)
    /\ UNCHANGED <<calls, delegated, limit, decorators>>

InitInterleave ==
    /\ InitAdapter
    /\ pended = InterleaveNew
    /\ calls = 0
    /\ delegated = 0
    /\ limit = 0
    /\ decorators = {"interleave_pending"}

NextInterleave ==
    \/ \E b \in 0..MaxBuf : IPRead(b)
    \/ IPFillBuf
    \/ \E n \in 0..(MaxChunkLen + 1) : IPConsume(n)

SpecInterleave == InitInterleave /\ [][NextInterleave]_vars

---------------------------------------------------------------------------
\* Limited<R>, as constructed by AsyncReadTestExt::limited(limit) over the
\* adapter: poll_read hands the wrapped reader at most limit bytes of the buffer.

\* LimitedRequest with the cap one byte too high.
LimitedRequest_OffByOne(lim, b) == Min(lim + 1, b)

\* LimitedRequest without the cap: the whole buffer is handed on.
LimitedRequest_Uncapped(lim, b) == b

\* The length of the buffer handed to the wrapped reader for a caller buffer of b.
LimitedRequest(lim, b) == Min(lim, b)

LimRead(b) ==
    /\ ~panicked
    /\ \E ready \in BOOLEAN :
          AdapterRead(b, poll_read(state, stream, ready, LimitedRequest(limit, b)))
    /\ UNCHANGED wrapperVars

InitLimited ==
    /\ InitAdapter
    /\ pended = FALSE
    /\ calls = 0
    /\ delegated = 0
    /\ limit \in 1..MaxLimit
    /\ decorators = {"limited"}

NextLimited == \E b \in 0..MaxBuf : LimRead(b)

SpecLimited == InitLimited /\ [][NextLimited]_vars

---------------------------------------------------------------------------
\* The adapter read through limited(limit), through interleave_pending(), or
\* through both, one in front of the other.

\* The buffer length that reaches the wrapped reader for a caller buffer of b.
Request(b) == IF "limited" \in decorators THEN LimitedRequest(limit, b) ELSE b

DecRead(b) ==
    /\ ~panicked
    /\ IF "interleave_pending" \in decorators
       THEN /\ calls < MaxCalls
            /\ calls' = calls + 1
            /\ pended' = InterleaveToggle(pended)
            /\ IF InterleaveDelegates(pended)
               THEN /\ \E ready \in BOOLEAN :
                          AdapterRead(b, poll_read(state, stream, ready, Request(b)))
                    /\ delegated' = delegated + 1
               ELSE InterleaveStall("read", b)
       ELSE /\ \E ready \in BOOLEAN :
                  AdapterRead(b, poll_read(state, stream, ready, Request(b)))
            /\ UNCHANGED <<pended, calls, delegated>>
    /\ UNCHANGED <<limit, decorators>>

InitDecorated ==
    /\ InitAdapter
    /\ decorators \in (SUBSET {"limited", "interleave_pending"}) \ {{}}
    /\ limit \in (IF "limited" \in decorators THEN 1..MaxLimit ELSE {0})
    /\ pended = InterleaveNew
    /\ calls = 0
    /\ delegated = 0

NextDecorated == \E b \in 0..MaxBuf : DecRead(b)

SpecDecorated == InitDecorated /\ [][NextDecorated]_vars

---------------------------------------------------------------------------
\* futures-util/src/compat/executor.rs: Executor01As03<Ex>, a futures 0.1
\* Executor seen as a futures 0.3 Spawn, and Compat<Sp> as Executor01, a 0.3
\* spawner seen as a 0.1 Executor.

\* The outputs of a 0.3 future: (), Ok(v), Err(e).
Unit == [tag |-> "Unit"]
OkV(v) == [tag |-> "Ok", val |-> v]
ErrV(e) == [tag |-> "Err", val |-> e]

\* The ways a 0.1 future resolves: with an Item or with an Error.
Item(v) == [tag |-> "Item", val |-> v]
Error(e) == [tag |-> "Error", val |-> e]

\* FutureExt::unit_error: the output v becomes Ok(v).
unit_error(v) == OkV(v)

\* .compat() of a 0.3 future of Result output: Ok(v) is the Item v, Err(e)
\* the Error e of the 0.1 future.
compat03(v) == IF v.tag = "Ok" THEN Item(v.val) ELSE Error(v.val)

\* .compat() of a 0.1 future: the Item v is the output Ok(v), the Error e the
\* output Err(e) of the 0.3 future.
compat01(r) == IF r.tag = "Item" THEN OkV(r.val) ELSE ErrV(r.val)

\* .map(|_| ()).
map_unit(v) == Unit

\* What the future handed to the 0.1 executor resolves to, for a 0.3 future
\* that resolves to v: future.unit_error().compat().
HandOff01(v) == compat03(unit_error(v))

\* HandOff03 without the .map(|_| ()).
HandOff03_NoMap(r) == compat01(r)

\* What the future handed to the 0.3 spawner resolves to, for a 0.1 future
\* that resolves with r: future.compat().map(|_| ()).
HandOff03(r) == map_unit(compat01(r))

\* What a future submitted through the bridge may resolve to: a
\* FutureObj<'static, ()> to (), a Future01<Item = (), Error = ()> with the
\* Item () or the Error ().
Originals(br) == IF br = "Executor01As03" THEN {Unit} ELSE {Item(Unit), Error(Unit)}

\* The answers of the wrapped target to a submission: a 0.1 Executor accepts
\* or returns an ExecuteError (Shutdown, NoCapacity), a 0.3 Spawn accepts or
\* returns a SpawnError (shutdown).
Answers(br, open) ==
    IF ~open THEN {"shutdown"}
    ELSE IF br = "Executor01As03" THEN {"ok", "no_capacity"} ELSE {"ok", "shutdown"}

\* spawn_obj remembering a refusal: once refused, it answers shutdown.
SpawnObjResult_Latched(answer) ==
    IF answer = "ok" /\ sub.kind # "Err" THEN "Ok" ELSE "Err"

\* The result of Executor01As03::spawn_obj: execute(future).map_err(|_| shutdown()).
SpawnObjResult(answer) == IF answer = "ok" THEN "Ok" ELSE "Err"

\* The result of <Compat<Sp> as Executor01>::execute: spawn(..).expect(..); Ok(()).
ExecuteResult(answer) == IF answer = "ok" THEN "Ok" ELSE "Panic"

\* A future in the hands of the wrapped target.
Task(orig, handed) == [orig |-> orig, handed |-> handed, status |-> "queued"]

\* One submission of a future that resolves to orig, answered by the target.
Submit(orig, answer) ==
    /\ bridge # "none"
    /\ submits < MaxSubmits
    /\ orig \in Originals(bridge)
    /\ answer \in Answers(bridge, targetOpen)
    /\ submits' = submits + 1
    /\ sub' = [kind |-> IF bridge = "Executor01As03"
                        THEN SpawnObjResult(answer) ELSE ExecuteResult(answer),
               answer |-> answer, delegated |-> 1]
    /\ tasks' = IF answer = "ok"
                THEN Append(tasks, Task(orig, IF bridge = "Executor01As03"
                                               THEN HandOff01(orig) ELSE HandOff03(orig)))
                ELSE tasks
    /\ UNCHANGED <<bridge, targetOpen, observed>>
    /\ UNCHANGED <<adapterVars, wrapperVars, tcpVars>>

\* The wrapped target polls an accepted future to its end.
RunTask(i) ==
    /\ bridge # "none"
    /\ i \in 1..Len(tasks)
    /\ tasks[i].status = "queued"
    /\ tasks' = [tasks EXCEPT ![i].status = "done"]
    /\ observed' = observed \cup {tasks[i].handed}
    /\ UNCHANGED <<bridge, targetOpen, sub, submits>>
    /\ UNCHANGED <<adapterVars, wrapperVars, tcpVars>>

\* The wrapped target drops an accepted future before its end.
DropTask(i) ==
    /\ bridge # "none"
    /\ i \in 1..Len(tasks)
    /\ tasks[i].status = "queued"
    /\ tasks' = [tasks EXCEPT ![i].status = "dropped"]
    /\ UNCHANGED <<bridge, targetOpen, sub, submits, observed>>
    /\ UNCHANGED <<adapterVars, wrapperVars, tcpVars>>

\* The wrapped target is shut down.
Shutdown ==
    /\ bridge # "none"
    /\ targetOpen
    /\ targetOpen' = FALSE
    /\ UNCHANGED <<bridge, tasks, sub, submits, observed>>
    /\ UNCHANGED <<adapterVars, wrapperVars, tcpVars>>

\* No reader in use.
ReaderIdle ==
    /\ upstream = <<>>
    /\ stream = <<>>
    /\ state = PendingChunk
    /\ debug_assertions = FALSE
    /\ panicked = FALSE
    /\ ret = [op |-> "none", arg |-> 0, kind |-> "Unit", data |-> <<>>, polled |-> 0]
    /\ produced = <<>>
    /\ taken = <<>>
    /\ exposed = 0
    /\ misused = FALSE
    /\ bufRead = FALSE
    /\ errs = 0
    /\ pended = FALSE
    /\ calls = 0
    /\ delegated = 0
    /\ limit = 0
    /\ decorators = {}

\* Executor01CompatExt::compat(executor01), or Compat::new(spawner03).
InitExecutor ==
    /\ ReaderIdle
    /\ bridge \in {"Executor01As03", "Compat"}
    /\ targetOpen = TRUE
    /\ tasks = <<>>
    /\ sub = NoSubmission
    /\ submits = 0
    /\ observed = {}
    /\ TcpIdle

NextExecutor ==
    \/ \E orig \in {Unit, Item(Unit), Error(Unit)},
          answer \in {"ok", "shutdown", "no_capacity"} : Submit(orig, answer)
    \/ \E i \in 1..MaxSubmits : RunTask(i)
    \/ \E i \in 1..MaxSubmits : DropTask(i)
    \/ Shutdown

SpecExecutor == InitExecutor /\ [][NextExecutor]_vars

---------------------------------------------------------------------------
\* mio/src/tcp.rs: TcpListener and TcpStream over the event loop's readiness
\* streams.

\* ReadinessStream::poll when the stream has fired: the firing is taken.
TakeFiring(r) == [r EXCEPT !.fired = FALSE, !.consumed = @ + 1]

\* ReadinessStream::poll when the stream has not fired: the stream is armed
\* and the poll returns NotReady.
Rearm(r) == [r EXCEPT !.armed = TRUE]

\* The answers of mio::tcp::TcpListener::bind(addr).
BindAnswers == {"ok", "addr_in_use"}

\* tcp_listen registering the listener whatever bind answered.
ListenFuture_AlwaysNew(answer) == "registering"

\* The future tcp_listen returns: TcpListener::new(l, self) for Ok(l),
\* failed(e) for Err(e).
ListenFuture(answer) == IF answer = "ok" THEN "registering" ELSE "failed"

\* LoopHandle::tcp_listen(addr).
TcpListen(answer) ==
    /\ lsn.state = "none"
    /\ answer \in BindAnswers
    /\ lsn' = [lsn EXCEPT !.state = ListenFuture(answer),
                          !.err = IF answer = "ok" THEN "none" ELSE answer]
    /\ UNCHANGED <<con, registered>>
    /\ UNCHANGED <<adapterVars, wrapperVars, execVars>>

\* One poll of the future tcp_listen returned; on Ok the listener is turned
\* into its incoming() stream.
PollListen(regReady) ==
    /\ lsn.state \in {"failed", "registering"}
    /\ IF lsn.state = "failed"
       THEN /\ regReady = FALSE
            /\ lsn' = [lsn EXCEPT !.state = "resolved_err", !.res = "Err"]
            /\ registered' = registered
       ELSE IF regReady
       THEN /\ lsn' = [lsn EXCEPT !.state = "listening", !.res = "Ok"]
            /\ registered' = registered \cup {"listener"}
       ELSE /\ lsn' = [lsn EXCEPT !.res = "Pending"]
            /\ registered' = registered
    /\ UNCHANGED con
    /\ UNCHANGED <<adapterVars, wrapperVars, execVars>>

\* A client's connection is queued at the listening socket: an edge of its
\* read readiness, which the event loop has yet to signal.
Arrive ==
    /\ lsn.state \in {"registering", "listening"}
    /\ lsn.arrived < MaxConns
    /\ lsn' = [lsn EXCEPT !.backlog = @ + 1, !.arrived = @ + 1, !.edge = TRUE]
    /\ UNCHANGED <<con, registered>>
    /\ UNCHANGED <<adapterVars, wrapperVars, execVars>>

\* The event loop fires the listener's armed read readiness: a connection is
\* queued, or the firing is one of the at-least-once contract. One firing
\* signals every edge there has been since the last one.
FireRead ==
    /\ "listener" \in registered
    /\ lsn.armed
    /\ ~lsn.fired
    /\ lsn.backlog > 0 \/ lsn.spurious < MaxSpurious
    /\ lsn' = [lsn EXCEPT !.fired = TRUE, !.armed = FALSE, !.edge = FALSE,
                          !.spurious = IF lsn.backlog = 0 THEN @ + 1 ELSE @]
    /\ UNCHANGED <<con, registered>>
    /\ UNCHANGED <<adapterVars, wrapperVars, execVars>>

\* The answers of source.accept(): Ok(Some(..)), Ok(None) for would-block, or
\* Err(e).
AcceptAnswers(l) ==
    (IF l.backlog > 0 THEN {"conn"} ELSE {"would_block"})
    \cup (IF l.failures < MaxAcceptErrs THEN {"too_many_files"} ELSE {})

\* filter_map passing Ok(None) on as an element.
filter_map_NoFilter(answer) ==
    IF answer \in {"conn", "would_block"} THEN "element" ELSE "error"

\* filter_map dropping errors as it drops Ok(None).
filter_map_SkipsErr(answer) == IF answer = "conn" THEN "element" ELSE "skip"

\* .and_then(|()| source.accept()).filter_map(|i| i): Ok(Some(..)) is an
\* element, Ok(None) is skipped, Err(e) is the stream's error.
filter_map(answer) ==
    CASE answer = "conn" -> "element"
      [] answer = "would_block" -> "skip"
      [] OTHER -> "error"

\* The second and_then: ReadinessPair::new for the accepted socket, ready or
\* not; the element is yielded when it is ready.
Registering(l, regReady) ==
    IF regReady
    THEN [l EXCEPT !.accepting = FALSE, !.ret = "Item", !.yielded = @ + 1]
    ELSE [l EXCEPT !.accepting = TRUE, !.ret = "Pending"]

\* One poll of the incoming() stream.
PollIncoming(answer, regReady) ==
    /\ lsn.state = "listening"
    /\ IF lsn.accepting
       THEN /\ answer = "none"
            /\ lsn' = [Registering(lsn, regReady) EXCEPT !.answer = "none"]
            /\ registered' = IF regReady THEN registered \cup {"accepted"} ELSE registered
       ELSE IF ~lsn.fired
       THEN /\ answer = "none"
            /\ regReady = FALSE
            /\ lsn' = [Rearm(lsn) EXCEPT !.ret = "Pending", !.answer = "none"]
            /\ registered' = registered
       ELSE /\ answer \in AcceptAnswers(lsn)
            /\ LET took == [TakeFiring(lsn) EXCEPT
                               !.accepts = @ + 1, !.answer = answer,
                               !.backlog = IF answer = "conn" THEN @ - 1 ELSE @,
                               !.failures = IF answer \in {"conn", "would_block"}
                                            THEN @ ELSE @ + 1,
                               !.errAt = IF answer \in {"conn", "would_block"}
                                         THEN @ ELSE lsn.arrived]
               IN CASE filter_map(answer) = "element" ->
                         /\ lsn' = Registering(took, regReady)
                         /\ registered' = IF regReady THEN registered \cup {"accepted"}
                                          ELSE registered
                    [] filter_map(answer) = "skip" ->
                         /\ regReady = FALSE
                         /\ lsn' = [Rearm(took) EXCEPT !.ret = "Pending"]
                         /\ registered' = registered
                    [] OTHER ->
                         /\ regReady = FALSE
                         /\ lsn' = [took EXCEPT !.ret = "Err", !.surfaced = @ + 1]
                         /\ registered' = registered
    /\ UNCHANGED con
    /\ UNCHANGED <<adapterVars, wrapperVars, execVars>>

\* The answers of mio::tcp::TcpStream::connect(addr) to a port that has a
\* listener or has none.
ConnectAnswers(port) ==
    IF port = "closed" THEN {"in_progress", "conn_refused"}
    ELSE {"in_progress", "connected"}

\* The future tcp_connect returns: TcpStream::new(tcp, self) for Ok(tcp),
\* failed(e) for Err(e).
ConnectFuture(answer) ==
    IF answer \in {"in_progress", "connected"} THEN "registering" ELSE "failed"

\* LoopHandle::tcp_connect(addr).
TcpConnect(port, answer) ==
    /\ con.state = "none"
    /\ port \in {"listening", "closed"}
    /\ answer \in ConnectAnswers(port)
    /\ con' = [con EXCEPT !.state = ConnectFuture(answer),
                          !.port = port,
                          !.os = CASE answer = "in_progress" -> "in_progress"
                                   [] answer = "connected" -> "established"
                                   [] OTHER -> "none",
                          !.err = IF answer \in {"in_progress", "connected"}
                                  THEN "none" ELSE answer]
    /\ UNCHANGED <<lsn, registered>>
    /\ UNCHANGED <<adapterVars, wrapperVars, execVars>>

\* The OS ends a connect in progress: refused where nothing listens, otherwise
\* established or failed.
OsResolve(outcome) ==
    /\ con.os = "in_progress"
    /\ outcome \in (IF con.port = "closed" THEN {"conn_refused"}
                    ELSE {"established", "timed_out"})
    /\ con' = [con EXCEPT !.os = outcome]
    /\ UNCHANGED <<lsn, registered>>
    /\ UNCHANGED <<adapterVars, wrapperVars, execVars>>

\* The event loop fires the socket's armed write readiness: the connect has
\* ended, or the firing is one of the at-least-once contract.
FireWrite ==
    /\ "client" \in registered
    /\ con.armed
    /\ ~con.fired
    /\ con.os # "in_progress" \/ con.spurious < MaxSpurious
    /\ con' = [con EXCEPT !.fired = TRUE, !.armed = FALSE,
                          !.spurious = IF con.os = "in_progress" THEN @ + 1 ELSE @]
    /\ UNCHANGED <<lsn, registered>>
    /\ UNCHANGED <<adapterVars, wrapperVars, execVars>>

\* The answer of source.take_socket_error().
QueryAnswer(os) ==
    CASE os = "in_progress" -> "would_block"
      [] os = "established" -> "ok"
      [] OTHER -> os

\* The predicate taking would-block for the end of the connect.
connect_pred_NoRetry(answer) ==
    IF answer \in {"ok", "would_block"} THEN "stop" ELSE "error"

\* The predicate skipping every failed query.
connect_pred_SkipsErr(answer) == IF answer = "ok" THEN "stop" ELSE "skip"

\* The skip_while predicate: Ok(()) => Ok(false), WouldBlock => Ok(true),
\* Err(e) => Err(e).
connect_pred(answer) ==
    CASE answer = "ok" -> "stop"
      [] answer = "would_block" -> "skip"
      [] OTHER -> "error"

\* ready_write.skip_while(..).into_future(), polled once.
Connected(c) ==
    IF ~c.fired
    THEN [Rearm(c) EXCEPT !.state = "waiting", !.ret = "Pending", !.answer = "none"]
    ELSE LET answer == QueryAnswer(c.os)
             took == [TakeFiring(c) EXCEPT !.queries = @ + 1, !.answer = answer]
         IN CASE connect_pred(answer) = "stop" ->
                   [took EXCEPT !.state = "done_ok", !.ret = "Ok"]
              [] connect_pred(answer) = "skip" ->
                   [Rearm(took) EXCEPT !.state = "waiting", !.ret = "Pending"]
              [] OTHER ->
                   [took EXCEPT !.state = "done_err", !.ret = "Err", !.err = answer]

\* One poll of the future tcp_connect returned.
PollConnect(regReady) ==
    /\ con.state \in {"failed", "registering", "waiting"}
    /\ IF con.state = "failed"
       THEN /\ regReady = FALSE
            /\ con' = [con EXCEPT !.state = "done_err", !.ret = "Err"]
            /\ registered' = registered
       ELSE IF con.state = "registering" /\ ~regReady
       THEN /\ con' = [con EXCEPT !.ret = "Pending"]
            /\ registered' = registered
       ELSE /\ con.state = "waiting" => regReady = FALSE
            /\ con' = Connected(con)
            /\ registered' = registered \cup {"client"}
    /\ UNCHANGED lsn
    /\ UNCHANGED <<adapterVars, wrapperVars, execVars>>

\* An event loop and its handle, no socket yet.
InitTcp ==
    /\ ReaderIdle
    /\ ExecutorIdle
    /\ TcpIdle

NextTcp ==
    \/ \E answer \in BindAnswers : TcpListen(answer)
    \/ \E regReady \in BOOLEAN : PollListen(regReady)
    \/ Arrive
    \/ FireRead
    \/ \E answer \in {"none", "conn", "would_block", "too_many_files"},
          regReady \in BOOLEAN : PollIncoming(answer, regReady)
    \/ \E port \in {"listening", "closed"},
          answer \in {"in_progress", "connected", "conn_refused"} : TcpConnect(port, answer)
    \/ \E outcome \in {"established", "timed_out", "conn_refused"} : OsResolve(outcome)
    \/ FireWrite
    \/ \E regReady \in BOOLEAN : PollConnect(regReady)

SpecTcp == InitTcp /\ [][NextTcp]_vars

\* The future of tcp_connect is polled until it resolves, the OS ends every
\* connect in progress, and the event loop fires an armed write readiness
\* whose condition holds.
ConnectFairness ==
    /\ WF_vars(\E regReady \in BOOLEAN : PollConnect(regReady))
    /\ WF_vars(\E outcome \in {"established", "timed_out", "conn_refused"} : OsResolve(outcome))
    /\ WF_vars(FireWrite)

SpecTcpFair == SpecTcp /\ ConnectFairness

\* The firing the edge-triggered contract owes: an armed read readiness with
\* an edge not yet signalled.
FireReadEdge == lsn.edge /\ FireRead

\* The future of tcp_listen and the incoming() stream are polled again and
\* again, and the event loop delivers every firing it owes.
ListenFairness ==
    /\ WF_vars(\E regReady \in BOOLEAN : PollListen(regReady))
    /\ WF_vars(\E answer \in {"none", "conn", "would_block", "too_many_files"},
                  regReady \in BOOLEAN : PollIncoming(answer, regReady))
    /\ WF_vars(FireReadEdge)

SpecListenFair == SpecTcp /\ ListenFairness

\* An event loop that also fires an armed read readiness whenever a
\* connection is queued, edge or not.
SpecListenLevel == SpecListenFair /\ WF_vars(FireRead)

---------------------------------------------------------------------------
\* What the claims speak of.

\* The bytes of the chunks before the first error of a sequence of items.
RECURSIVE BeforeFirstErr(_)
BeforeFirstErr(items) ==
    IF items = <<>> \/ ~Head(items).ok THEN <<>>
    ELSE Head(items).bytes \o BeforeFirstErr(Tail(items))

IsPrefix(s, t) == Len(s) <= Len(t) /\ s = SubSeq(t, 1, Len(s))

\* The bytes of the held chunk not yet taken.
Held == IF state.tag = "Ready" THEN Rest(state) ELSE <<>>

IsPoll(op) == op \in {"read", "fill_buf"}

\* C1: read through poll_read alone, with buffers of any size, the bytes
\* returned so far followed by the rest of the held chunk are the bytes the
\* upstream has produced, in order, each once; these are a prefix of the chunks
\* before the upstream's first error or end, and all of them once the adapter
\* is at Eof, the count read being the count produced.
C1_ReadsReproduceChunks ==
    ~bufRead =>
        /\ taken \o Held = produced
        /\ IsPrefix(produced, BeforeFirstErr(upstream))
        /\ state.tag = "Eof" =>
              /\ taken = BeforeFirstErr(upstream)
              /\ Len(taken) = Len(produced)

\* C1 witness: three chunks, one of them empty, read to the end by poll_read alone.
C1_Witness ==
    /\ ~bufRead
    /\ state.tag = "Eof"
    /\ ret.op = "read"
    /\ Len(upstream) = 3
    /\ \E i \in 1..3 : upstream[i] = OkItem(<<>>)
    /\ Len(taken) >= 3

\* C2: from Eof every call leaves the adapter at Eof and the upstream
\* untouched and unpolled; poll_read returns Ok(0) and poll_fill_buf an empty
\* view.
C2_EofIsAbsorbing ==
    [][state.tag = "Eof" =>
          /\ state'.tag = "Eof"
          /\ stream' = stream
          /\ produced' = produced
          /\ ret'.polled = 0
          /\ IsPoll(ret'.op) => ret'.kind = "Ok" /\ ret'.data = <<>>]_vars

\* C2 witness: a poll_read made at Eof (it polled nothing) while the upstream
\* still has items to yield.
C2_Witness ==
    /\ state.tag = "Eof"
    /\ ret.op = "read"
    /\ ret.kind = "Ok"
    /\ ret.polled = 0
    /\ stream # <<>>

\* C3: an error the upstream reports to a poll made in PendingChunk is returned
\* by that call and latches the adapter at Eof; no second call ever returns an
\* error, and every poll_read or poll_fill_buf after it returns end of data.
C3_ErrorSurfacedOnce ==
    /\ [](errs <= 1 /\ (errs = 1 => state.tag = "Eof"))
    /\ [][/\ (/\ state.tag = "PendingChunk"
              /\ stream # <<>>
              /\ ~Head(stream).ok
              /\ IsPoll(ret'.op)
              /\ ret'.kind # "Pending")
             => (ret'.kind = "Err" /\ state'.tag = "Eof" /\ errs' = errs + 1)
          /\ (errs = 1 /\ IsPoll(ret'.op))
             => (ret'.kind = "Ok" /\ ret'.data = <<>> /\ errs' = 1)]_vars

\* C3 witness: after the error, a later call returned end of data although the
\* upstream holds a second error.
C3_Witness ==
    /\ errs = 1
    /\ IsPoll(ret.op)
    /\ ret.kind = "Ok"
    /\ ret.data = <<>>
    /\ \E i \in 1..Len(stream) : ~stream[i].ok

\* C4: a poll_fill_buf that returns Ok gives an empty view only with the
\* adapter at Eof.
C4_EmptyViewOnlyAtEof ==
    (ret.op = "fill_buf" /\ ret.kind = "Ok" /\ ret.data = <<>>) => state.tag = "Eof"

\* C5: after reads, peeks and consumes within what was exposed, a held chunk
\* has 0 <= chunk_start < len: a chunk is dropped as soon as chunk_start
\* reaches its length.
C5_HeldChunkHasBytesLeft ==
    (~misused /\ state.tag = "Ready") =>
        (0 <= state.chunk_start /\ state.chunk_start < Len(state.chunk))

\* C6: a consume(n) that follows a successful poll_fill_buf faults exactly
\* when n exceeds the length of the view that call exposed.
C6_ConsumeFaultsIffOverrun ==
    [][(ret.op = "fill_buf" /\ ret.kind = "Ok" /\ ret'.op = "consume") =>
          ((ret'.kind = "Panic") <=> (ret'.arg > Len(ret.data)))]_vars

\* C7: with consumes within what was exposed, poll_fill_buf exposes the rest
\* &chunk[chunk_start..] of the held chunk, without polling the upstream while a
\* chunk is held; consume(k) with k below the rest keeps the chunk and moves
\* chunk_start by k, and with k the whole rest drops it, after which the next
\* poll_fill_buf polls the upstream and exposes its next chunk from 0; the
\* bytes passed over are, in order, the bytes of the chunks.
C7_PeekConsumeWalksChunks ==
    /\ [](~misused =>
            /\ taken \o Held = produced
            /\ IsPrefix(produced, BeforeFirstErr(upstream))
            /\ (ret.op = "fill_buf" /\ ret.kind = "Ok") => ret.data = Held)
    /\ [][~misused' =>
            /\ (state.tag = "Ready" /\ ret'.op = "fill_buf") =>
                  /\ ret'.polled = 0
                  /\ ret'.kind = "Ok"
                  /\ ret'.data = Rest(state)
                  /\ state' = state
            /\ (state.tag = "Ready" /\ ret'.op = "consume") =>
                  /\ ret'.kind = "Unit"
                  /\ taken' = taken \o SubSeq(Rest(state), 1, ret'.arg)
                  /\ state' = IF ret'.arg < Len(Rest(state))
                              THEN Ready(state.chunk, state.chunk_start + ret'.arg)
                              ELSE PendingChunk
            /\ (state.tag = "PendingChunk" /\ ret'.op = "fill_buf") =>
                  /\ ret'.polled = 1
                  /\ (ret'.kind = "Ok" /\ stream # <<>>) =>
                        /\ state' = Ready(Head(stream).bytes, 0)
                        /\ ret'.data = Head(stream).bytes
                        /\ stream' = Tail(stream)]_vars

\* C7 witness: a chunk passed over in two consumes, and the next chunk exposed
\* from its start by the poll_fill_buf that followed.
C7_Witness ==
    /\ ~misused
    /\ ret.op = "fill_buf"
    /\ ret.kind = "Ok"
    /\ ret.polled = 1
    /\ state.tag = "Ready"
    /\ state.chunk_start = 0
    /\ Len(state.chunk) = 2
    /\ Len(taken) = 2

\* Whether n is even.
Even(n) == n % 2 = 0

\* C8: of the poll_read and poll_fill_buf calls made on an InterleavePending,
\* the odd-numbered ones return Pending and leave the wrapped reader and its
\* upstream untouched, the even-numbered ones are one call of the same
\* operation on the wrapped reader and return what it returns; so M delegated
\* calls have taken 2M calls.
C8_InterleaveAlternates ==
    /\ [](pended = ~Even(calls) /\ 2 * delegated = (IF Even(calls) THEN calls ELSE calls - 1))
    /\ [][calls' = calls + 1 =>
            IF ~Even(calls')
            THEN /\ ret'.kind = "Pending"
                 /\ ret'.polled = 0
                 /\ delegated' = delegated
                 /\ UNCHANGED <<state, stream, produced, taken, exposed, errs>>
            ELSE /\ delegated' = delegated + 1
                 /\ \E ready \in BOOLEAN :
                       LET o == IF ret'.op = "read"
                                THEN poll_read(state, stream, ready, ret'.arg)
                                ELSE poll_fill_buf(state, stream, ready)
                       IN /\ state' = o.state
                          /\ stream' = o.stream
                          /\ ret'.kind = o.kind
                          /\ ret'.data = o.data
                          /\ ret'.polled = o.polled]_vars

\* C8 witness: the bytes 1, 2, 3 read with a buffer of 2 in six calls:
\* Pending, [1, 2], Pending, [3], Pending, 0.
C8_Witness ==
    /\ ~bufRead
    /\ calls = 6
    /\ delegated = 3
    /\ taken = <<1, 2, 3>>
    /\ upstream = <<OkItem(<<1, 2>>), OkItem(<<3>>)>>
    /\ state.tag = "Eof"
    /\ ret = [op |-> "read", arg |-> 2, kind |-> "Ok", data |-> <<>>, polled |-> 1]

\* C9: consume on an InterleavePending leaves the toggle and the count of
\* poll calls as they were, never returns Pending, and does to the wrapped
\* reader what its consume does.
C9_ConsumeKeepsToggle ==
    [][ret'.op = "consume" =>
          /\ pended' = pended
          /\ calls' = calls
          /\ delegated' = delegated
          /\ ret'.kind # "Pending"
          /\ state' = consume(state, stream, debug_assertions, ret'.arg).state]_vars

\* C9 witness: bytes consumed between a delegated poll_fill_buf and the
\* Pending of the call after it.
C9_Witness ==
    /\ ret.op = "consume"
    /\ ret.kind = "Unit"
    /\ ret.arg = 1
    /\ ~pended
    /\ calls = 2
    /\ taken = <<1>>

\* C10: a poll_read on a Limited with cap limit and a buffer of B bytes returns
\* at most min(limit, B) bytes, and exactly limit bytes when B >= limit and the
\* wrapped reader holds, or is handed by a ready upstream, more than limit.
C10_LimitedCapsReads ==
    [][ret'.op = "read" =>
          /\ Len(ret'.data) <= Min(limit, ret'.arg)
          /\ (/\ ret'.arg >= limit
              /\ state.tag = "Ready"
              /\ Len(Rest(state)) > limit)
             => (ret'.kind = "Ok" /\ ret'.data = SubSeq(Rest(state), 1, limit))
          /\ (/\ ret'.arg >= limit
              /\ state.tag = "PendingChunk"
              /\ ret'.kind = "Ok"
              /\ stream # <<>>
              /\ Len(Head(stream).bytes) > limit)
             => ret'.data = SubSeq(Head(stream).bytes, 1, limit)]_vars

\* C10 witness: with cap 1, a buffer of 3 and a chunk of 2 at hand, one byte
\* is returned.
C10_Witness ==
    /\ limit = 1
    /\ ret.op = "read"
    /\ ret.arg = 3
    /\ ret.kind = "Ok"
    /\ Len(ret.data) = 1
    /\ state.tag = "Ready"
    /\ Len(state.chunk) = 2
    /\ state.chunk_start = 1

\* C11: read through Limited, InterleavePending or both, the bytes delivered
\* are those the adapter read directly delivers: delivered bytes followed by
\* the held rest are the bytes produced, and at Eof all the chunks before the
\* first error or end. Each call is a stall that leaves the adapter alone, or
\* one poll_read of the adapter with a buffer of min(limit, B) bytes (B without
\* a Limited) whose bytes all reach the caller.
C11_DecoratorsPreserveData ==
    /\ [](/\ taken \o Held = produced
          /\ IsPrefix(produced, BeforeFirstErr(upstream))
          /\ state.tag = "Eof" => taken = BeforeFirstErr(upstream))
    /\ [][ret'.op = "read" =>
            \/ /\ "interleave_pending" \in decorators
               /\ ret'.kind = "Pending"
               /\ ret'.polled = 0
               /\ UNCHANGED <<state, stream, produced, taken>>
            \/ \E ready \in BOOLEAN :
                  LET req == IF "limited" \in decorators
                             THEN Min(limit, ret'.arg) ELSE ret'.arg
                      o == poll_read(state, stream, ready, req)
                  IN /\ state' = o.state
                     /\ stream' = o.stream
                     /\ ret'.kind = o.kind
                     /\ ret'.data = o.data
                     /\ taken' = taken \o o.data
                     /\ "limited" \in decorators => Len(ret'.data) <= limit]_vars

\* C11 witness: a chunk of two bytes read to the end through both decorators
\* with cap 1 and buffers of 3: Pending, [1], Pending, [2], Pending, 0.
C11_Witness ==
    /\ decorators = {"limited", "interleave_pending"}
    /\ limit = 1
    /\ upstream = <<OkItem(<<1, 2>>)>>
    /\ state.tag = "Eof"
    /\ taken = <<1, 2>>
    /\ calls = 6
    /\ ret.arg = 3

\* C20: one poll_read with a buffer of B bytes. With a chunk held it polls
\* nothing, returns Ok with the first min(B, len - chunk_start) bytes of the
\* rest and moves chunk_start by that count. In PendingChunk it polls the
\* upstream once and, given a chunk, returns its first min(B, len) bytes in the
\* same call. It never polls twice nor takes more than one item of the upstream.
C20_OneReadOneChunk ==
    [][ret'.op = "read" =>
          /\ ret'.polled <= 1
          /\ Len(stream) - Len(stream') <= 1
          /\ state.tag = "Ready" =>
                LET len == Min(ret'.arg, Len(state.chunk) - state.chunk_start)
                IN /\ ret'.polled = 0
                   /\ ret'.kind = "Ok"
                   /\ stream' = stream
                   /\ ret'.data = SubSeq(state.chunk, state.chunk_start + 1,
                                         state.chunk_start + len)
                   /\ state' = IF state.chunk_start + len = Len(state.chunk)
                               THEN PendingChunk
                               ELSE Ready(state.chunk, state.chunk_start + len)
          /\ state.tag = "PendingChunk" =>
                /\ ret'.polled = 1
                /\ (ret'.kind = "Ok" /\ stream # <<>>) =>
                      LET chunk == Head(stream).bytes
                          len == Min(ret'.arg, Len(chunk))
                      IN /\ stream' = Tail(stream)
                         /\ produced' = produced \o chunk
                         /\ ret'.data = SubSeq(chunk, 1, len)
                         /\ state' = IF len = Len(chunk)
                                     THEN PendingChunk ELSE Ready(chunk, len)]_vars

\* C20 witness: a short read: one byte of a fresh chunk of two returned to a
\* buffer of one, another chunk waiting upstream, then the read of the second
\* byte from the held chunk, with no poll.
C20_Witness ==
    /\ ~bufRead
    /\ ret.op = "read"
    /\ ret.arg = 1
    /\ ret.polled = 0
    /\ ret.data = <<2>>
    /\ taken = <<1, 2>>
    /\ state.tag = "PendingChunk"
    /\ stream # <<>>

\* C12: through either bridge, a submission the wrapped target refuses returns
\* a shutdown error to the submitter: neither success nor a panic.
C12_RefusalIsShutdownError ==
    (sub.kind # "none" /\ sub.answer # "ok") => sub.kind = "Err"

\* C13: every future in the hands of the wrapped target resolves, and has been
\* seen to resolve, to a unit success only: the Item () for a 0.1 executor, ()
\* for a 0.3 spawner, whatever the submitted future resolves to.
C13_TargetSeesUnitSuccess ==
    LET unitSuccess == IF bridge = "Executor01As03" THEN Item(Unit) ELSE Unit
    IN /\ \A i \in 1..Len(tasks) : tasks[i].handed = unitSuccess
       /\ observed \subseteq {unitSuccess}

\* C13 witness: a 0.1 future that fails with the Error () has run to its end on the
\* 0.3 spawner.
C13_Witness ==
    /\ bridge = "Compat"
    /\ \E i \in 1..Len(tasks) : tasks[i].orig = Error(Unit) /\ tasks[i].status = "done"
    /\ observed # {}

\* C14: every submission, whatever came before it, calls the wrapped target
\* once, polls no future, leaves the futures already accepted as they are, adds
\* the new future unpolled exactly when the target accepts it, and returns what
\* the target's answer alone decides (for Compat a refusal is the panic of C12).
C14_SubmitIsStateless ==
    [][submits' = submits + 1 =>
          /\ sub'.delegated = 1
          /\ \A i \in 1..Len(tasks) : tasks'[i] = tasks[i]
          /\ observed' = observed
          /\ bridge' = bridge
          /\ IF sub'.answer = "ok"
             THEN /\ sub'.kind = "Ok"
                  /\ Len(tasks') = Len(tasks) + 1
                  /\ tasks'[Len(tasks')].status = "queued"
             ELSE /\ sub'.kind = (IF bridge = "Executor01As03" THEN "Err" ELSE "Panic")
                  /\ tasks' = tasks]_vars

\* C14 witness: after a future that ran, one that was dropped and a refused
\* submission, a fourth submission is accepted and waits unpolled.
C14_Witness ==
    /\ bridge = "Executor01As03"
    /\ submits = 4
    /\ Len(tasks) = 3
    /\ tasks[1].status = "done"
    /\ tasks[2].status = "dropped"
    /\ tasks[3].status = "queued"
    /\ sub.kind = "Ok"

\* C15: an accept that answers would-block yields neither an element nor an
\* error: that poll returns pending with the read readiness armed again, and
\* an accept is made exactly when a firing is taken, so the retry follows the
\* next firing.
C15_WouldBlockIsRetried ==
    [][/\ lsn'.accepts # lsn.accepts =>
             /\ lsn'.accepts = lsn.accepts + 1
             /\ lsn.fired
             /\ lsn'.consumed = lsn.consumed + 1
       /\ lsn'.consumed # lsn.consumed => lsn'.accepts = lsn.accepts + 1
       /\ (lsn'.accepts # lsn.accepts /\ lsn'.answer = "would_block") =>
             /\ lsn'.ret = "Pending"
             /\ lsn'.yielded = lsn.yielded
             /\ lsn'.surfaced = lsn.surfaced
             /\ ~lsn'.accepting
             /\ lsn'.armed
             /\ ~lsn'.fired]_vars

\* C15 witness: the one connection is yielded by the accept that followed a
\* would-block accept.
C15_Witness ==
    /\ lsn.arrived = 1
    /\ lsn.failures = 0
    /\ lsn.accepts = 2
    /\ lsn.answer = "conn"
    /\ lsn.ret = "Item"

\* C16: an accept that fails with another error makes that poll, and no other,
\* return the error; the listener stays registered and its stream in use, and
\* the queued connections stay queued.
C16_AcceptErrorSurfacedOnce ==
    /\ [](lsn.failures > 0 => lsn.state = "listening" /\ "listener" \in registered)
    /\ [][/\ lsn'.failures # lsn.failures =>
                /\ lsn'.ret = "Err"
                /\ lsn'.surfaced = lsn.surfaced + 1
                /\ lsn'.yielded = lsn.yielded
                /\ lsn'.backlog = lsn.backlog
          /\ lsn'.surfaced # lsn.surfaced => lsn'.failures = lsn.failures + 1]_vars

\* C16 witness: a connection that arrived after the failed accept is yielded.
C16_Witness ==
    /\ lsn.errAt >= 0
    /\ lsn.surfaced = 1
    /\ lsn.ret = "Item"
    /\ lsn.yielded > lsn.errAt

\* C17: the connect queries the pending error exactly when it takes a write
\* firing; on would-block it stays pending with the write readiness armed
\* again, on another error it fails with that error, and it succeeds only in a
\* step whose query answered no error.
C17_ConnectProtocol ==
    [][/\ lsn' = lsn \/ con' = con
       /\ con'.queries # con.queries =>
             /\ con'.queries = con.queries + 1
             /\ con.fired
             /\ con'.consumed = con.consumed + 1
       /\ con'.consumed # con.consumed => con'.queries = con.queries + 1
       /\ (con'.queries # con.queries /\ con'.answer = "would_block") =>
             /\ con'.state = "waiting"
             /\ con'.ret = "Pending"
             /\ con'.armed
             /\ ~con'.fired
       /\ (con'.queries # con.queries /\ con'.answer \notin {"ok", "would_block"}) =>
             /\ con'.state = "done_err"
             /\ con'.ret = "Err"
             /\ con'.err = con'.answer
       /\ (con'.state = "done_ok" /\ con.state # "done_ok") =>
             /\ con'.queries = con.queries + 1
             /\ con'.answer = "ok"]_vars

\* C17 witness: the connect succeeded at its second query, the first having
\* answered would-block.
C17_Witness ==
    /\ con.state = "done_ok"
    /\ con.queries = 2
    /\ con.spurious = 1

\* C18: a connect to a port where nothing listens never succeeds, fails with
\* connection refused at the firing it takes once the OS has recorded the
\* refusal, and does fail.
C18_RefusedConnectFails ==
    /\ [](con.port = "closed" => con.state # "done_ok")
    /\ [][(con.os = "conn_refused" /\ con'.consumed # con.consumed) =>
             con'.state = "done_err" /\ con'.err = "conn_refused"]_vars
    /\ (con.port = "closed") ~> (con.state = "done_err" /\ con.err = "conn_refused")

\* C18 witness: the refusal was found by the second query, the first firing
\* having come before the OS recorded it.
C18_Witness ==
    /\ con.port = "closed"
    /\ con.state = "done_err"
    /\ con.err = "conn_refused"
    /\ con.queries = 2

\* C19 as stated: once bind has failed, the caller of tcp_listen has its
\* error, not having polled anything.
C19_BindErrorIsCallResult ==
    lsn.err # "none" => lsn.res = "Err"

\* C19: once bind has failed, tcp_listen has returned a future that is already
\* failed: no socket is registered, no readiness is armed or fired, and the
\* first poll of that future, and only a poll, gives the caller the error.
C19_BindErrorIsFailedFuture ==
    /\ [](lsn.err # "none" =>
             /\ lsn.state \in {"failed", "resolved_err"}
             /\ "listener" \notin registered
             /\ ~lsn.armed /\ ~lsn.fired
             /\ lsn.res = "Err" <=> lsn.state = "resolved_err")
    /\ [][(lsn.state = "failed" /\ lsn' # lsn) =>
             lsn'.state = "resolved_err" /\ lsn'.res = "Err"]_vars

\* C19 witness: the future of a bind to an address in use has been polled.
C19_Witness ==
    /\ lsn.err = "addr_in_use"
    /\ lsn.state = "resolved_err"

\* C21: a poll_read with a buffer that is not empty returns Ok(0) only when it
\* leaves the adapter at Eof, and the poll_read that follows one that returned
\* Ok(0) returns no bytes.
C21_ZeroReadMeansEof ==
    [][/\ (ret'.op = "read" /\ ret'.arg > 0 /\ ret'.kind = "Ok" /\ ret'.data = <<>>) =>
             state'.tag = "Eof"
       /\ (ret.op = "read" /\ ret.arg > 0 /\ ret.kind = "Ok" /\ ret.data = <<>>
           /\ ret'.op = "read") =>
             ret'.data = <<>>]_vars

\* C22: a poll of incoming() makes an accept exactly when it takes a firing,
\* one at most, and every connection that has arrived at the listener is
\* yielded in the end, unless an accept has failed.
C22_EveryConnectionYielded ==
    /\ [][/\ lsn'.accepts - lsn.accepts = lsn'.consumed - lsn.consumed
          /\ lsn'.accepts - lsn.accepts <= 1]_vars
    /\ \A k \in 1..MaxConns :
          (lsn.arrived >= k) ~> (lsn.yielded >= k \/ lsn.failures > 0)

====
